---- MODULE Spec2Model ----
(***************************************************************************)
(* Model of streamlit_app.py: the job orchestration pipeline of the Excel  *)
(* aggregation front end (bucket resolution, upload, Lambda invocation,    *)
(* result interpretation, download, cleanup).                              *)
(*                                                                         *)
(* Every call to an AWS client is one step whose outcome is chosen by the  *)
(* environment; the Python code between two calls belongs to the step that *)
(* precedes it.  Bucket names, object keys and exception messages are      *)
(* strings, so that "x in str(e)" and Path(key).name are computed.  The    *)
(* script runs once per interaction; only the st.cache_resource entry of   *)
(* init_aws_clients outlives a run.                                        *)
(***************************************************************************)
EXTENDS Integers, Sequences, FiniteSets, TLC

VARIABLES
    pc,                 \* position of the current script run
    cache,              \* st.cache_resource entry of init_aws_clients
    clicked,            \* st.button of line 393, in the current run
    bucket_name,        \* get_or_create_bucket: aws_config['bucket_name']
    probe,              \* outcome of head_bucket ("none" before the call)
    listed,             \* outcome of list_buckets ("none" before the call)
    available_buckets,  \* names returned by list_buckets
    resolved,           \* main: result (the bucket name when connected)
    aws_connected,      \* main: aws_connected
    input_template_file,\* TRUE when a template is selected
    source_files,       \* names of the selected source files, in order
    zip_results,        \* checkbox zip_results
    keep_files,         \* checkbox keep_files
    source_keys,        \* process_files: keys of the sources uploaded so far
    lambda_response,    \* what lambda_client.invoke delivered
    metrics,            \* the three st.metric values, NoMetrics when not shown
    buttons,            \* st.download_button calls of the run, in order
    zip_entries,        \* download_files: names written into the archive
    idx,                \* index of the loop the run is in
    progress,           \* last progress_bar.progress value, in thousandths
    status_text,        \* last status_text.text value
    errors,             \* st.error / st.warning calls of the run, in order
    calls               \* AWS client calls of the run, in order, with outcome

vars == << pc, cache, clicked, bucket_name, probe, listed, available_buckets,
           resolved, aws_connected, input_template_file, source_files,
           zip_results, keep_files, source_keys, lambda_response, metrics,
           buttons, zip_entries, idx, progress, status_text, errors, calls >>

(***************************************************************************)
(* Bounds.                                                                 *)
(***************************************************************************)
MaxFiles == 2
MaxResults == 2
MaxRefs == 2

(***************************************************************************)
(* Texts.                                                                  *)
(***************************************************************************)
\* Python None and "" are both falsy where the code tests a name
None == ""

\* Python "sub in text"
Contains(sub, text) ==
    \E i \in 1..(Len(text) - Len(sub) + 1) : SubSeq(text, i, i + Len(sub) - 1) = sub

\* sequences over S of length at most n
SeqsUpTo(S, n) == UNION { [1..m -> S] : m \in 0..n }

\* sequences over S without repetition
DistinctSeqs(S) ==
    { s \in SeqsUpTo(S, Cardinality(S)) :
        \A a, b \in 1..Len(s) : a # b => s[a] # s[b] }

\* configured bucket names, timestamped like the defaults of get_aws_config
PreferredNames ==
    { "excel-aggregator-20250714-095126", "excel-aggregator-20250714-140312" }

Regions == { "us-east-1", "ap-northeast-1" }

\* buckets the credentials may see
BucketPool == { "company-archive", "company-reports" }

\* line 103: datetime.now().strftime("%Y%m%d-%H%M%S")
Timestamp == "20250714-101500"

\* line 104: f"excel-aggregator-{timestamp}"
NewBucketName == "excel-aggregator-" \o Timestamp

\* line 416: str(uuid.uuid4())[:8]
process_id == "1a2b3c4d"

\* name of the i-th selected source file
FileName(i) == "plan" \o ToString(i) \o ".xlsx"

Files(n) == [i \in 1..n |-> FileName(i)]

\* line 428: f"templates/{process_id}_input.xlsx"
TemplateKey == "templates/" \o process_id \o "_input.xlsx"

\* line 437: f"source-files/{process_id}_{i}_{source_file.name}", i from 0
SourceKey(i, name) ==
    "source-files/" \o process_id \o "_" \o ToString(i) \o "_" \o name

\* keys the Lambda function reports in processed_files
Ref(j) ==
    "outputs/" \o (IF j % 2 = 0 THEN "sub/" ELSE "") \o process_id \o "_"
               \o ToString(j) \o ".xlsx"

Refs(m) == [j \in 1..m |-> Ref(j)]

\* Path(file_key).name
PathName(key) ==
    LET slashes == { i \in 1..Len(key) : SubSeq(key, i, i) = "/" }
        last == CHOOSE i \in slashes : \A k \in slashes : k <= i
    IN  IF slashes = {} THEN key ELSE SubSeq(key, last + 1, Len(key))

(***************************************************************************)
(* Exceptions of head_bucket.  str(e) of a ClientError carries the HTTP    *)
(* code and reason; str(e) of a connection error carries the endpoint URL, *)
(* whose host starts with the bucket name.                                 *)
(***************************************************************************)
ProbeErrors == { "AccessDenied", "NotFound", "Network" }

ErrStr(kind, bucket) ==
    CASE kind = "AccessDenied" ->
            "An error occurred (403) when calling the HeadBucket operation: Forbidden"
      [] kind = "NotFound" ->
            "An error occurred (404) when calling the HeadBucket operation: Not Found"
      [] OTHER ->
            "Could not connect to the endpoint URL: https://" \o bucket
                \o ".s3.amazonaws.com/"

\* line 84: if "403" in str(e) or "Forbidden" in str(e)
IsForbidden(text) == Contains("403", text) \/ Contains("Forbidden", text)

Call(op, bkt, key, outcome) ==
    [op |-> op, bucket |-> bkt, key |-> key, outcome |-> outcome]

Msg(text, arg) == [text |-> text, arg |-> arg]

\* the messages shown with st.warning (lines 85, 172, 613); the others are
\* shown with st.error
Warnings == { "no access to bucket", "Lambda function error", "cleanup error" }

Severity(text) == IF text \in Warnings THEN "warning" ELSE "error"

NoMetrics == [shown |-> FALSE, success |-> 0, failure |-> 0, items |-> 0]

NoResponse == [tag |-> "none", statusCode |-> 0, body |-> "absent",
               results |-> << >>, processed_files |-> << >>]

EmptyCache == [filled |-> FALSE, connected |-> FALSE, result |-> None]

(***************************************************************************)
(* A script run starts with nothing but the cache of the process.          *)
(***************************************************************************)
FreshRun ==
    /\ pc' = "start"
    /\ bucket_name' = None
    /\ probe' = "none"
    /\ listed' = "none"
    /\ available_buckets' = << >>
    /\ resolved' = None
    /\ aws_connected' = FALSE
    /\ source_keys' = << >>
    /\ lambda_response' = NoResponse
    /\ metrics' = NoMetrics
    /\ buttons' = << >>
    /\ zip_entries' = << >>
    /\ idx' = 0
    /\ progress' = 0
    /\ status_text' = ""
    /\ errors' = << >>
    /\ calls' = << >>

Init ==
    /\ pc = "start"
    /\ cache = EmptyCache
    /\ clicked = FALSE
    /\ bucket_name = None
    /\ probe = "none"
    /\ listed = "none"
    /\ available_buckets = << >>
    /\ resolved = None
    /\ aws_connected = FALSE
    /\ input_template_file = FALSE
    /\ source_files = << >>
    /\ zip_results = FALSE
    /\ keep_files = FALSE
    /\ source_keys = << >>
    /\ lambda_response = NoResponse
    /\ metrics = NoMetrics
    /\ buttons = << >>
    /\ zip_entries = << >>
    /\ idx = 0
    /\ progress = 0
    /\ status_text = ""
    /\ errors = << >>
    /\ calls = << >>

widget_vars == << clicked, input_template_file, source_files, zip_results,
                  keep_files >>

job_vars == << source_keys, lambda_response, metrics, buttons, zip_entries,
               idx, progress, status_text >>

res_vars == << bucket_name, probe, listed, available_buckets >>

(***************************************************************************)
(* Streamlit runs the script again on every interaction: the output of the *)
(* run before is discarded, the widgets take their new values and the      *)
(* script starts from the top.  The button of line 393 can only be clicked *)
(* when the run before rendered it, that is when it was connected.         *)
(***************************************************************************)
RunEnded == pc \in { "stopped", "rendered", "invalid", "returned", "done" }

Rerun ==
    /\ RunEnded
    /\ FreshRun
    /\ clicked' = FALSE
    /\ input_template_file' = FALSE
    /\ source_files' = << >>
    /\ zip_results' = FALSE
    /\ keep_files' = FALSE
    /\ UNCHANGED cache

Widgets ==
    /\ pc = "start"
    /\ cache.filled
    /\ \E c \in BOOLEAN, t \in BOOLEAN, n \in 0..MaxFiles, z \in BOOLEAN,
          k \in BOOLEAN :
        /\ c => cache.connected
        /\ clicked' = c
        /\ input_template_file' = t
        /\ source_files' = Files(n)
        /\ zip_results' = z
        /\ keep_files' = k
    /\ pc' = "init"
    /\ UNCHANGED << cache, res_vars, resolved, aws_connected, job_vars, errors,
                    calls >>

(***************************************************************************)
(* init_aws_clients, lines 127-161: the cached result, or the credential   *)
(* test of the first call.                                                 *)
(***************************************************************************)
InitAwsClients ==
    /\ pc = "init" \/ (pc = "start" /\ ~cache.filled)
    /\ IF cache.filled
       THEN /\ aws_connected' = cache.connected
            /\ resolved' = cache.result
            /\ pc' = "main"
       ELSE /\ pc' = "sts"
            /\ UNCHANGED << aws_connected, resolved >>
    /\ UNCHANGED << cache, widget_vars, res_vars, job_vars, errors, calls >>

\* the tuple a failing init_aws_clients returns and caches (lines 161, 166)
NotConnected == [filled |-> TRUE, connected |-> FALSE, result |-> None]

\* the tuple a successful init_aws_clients returns and caches (lines 173, 175)
Connected(name) == [filled |-> TRUE, connected |-> TRUE, result |-> name]

GetCallerIdentity ==
    /\ pc = "sts"
    /\ \E ok \in BOOLEAN :
        /\ calls' = Append(calls, Call("get_caller_identity", None, None,
                                       IF ok THEN "ok" ELSE "error"))
        /\ IF ok
           THEN /\ pc' = "head_bucket"
                /\ UNCHANGED << cache, errors >>
           ELSE /\ pc' = "main"
                /\ cache' = NotConnected
                /\ errors' = Append(errors, Msg("auth error", None))
    /\ UNCHANGED << widget_vars, res_vars, resolved, aws_connected, job_vars >>

(***************************************************************************)
(* init_aws_clients, lines 164-166: a falsy bucket name ends the           *)
(* initialisation as not connected.                                        *)
(***************************************************************************)
AfterResolve(name) == IF name = None THEN "main" ELSE "get_function"

Resolve(name) ==
    /\ resolved' = name
    /\ pc' = AfterResolve(name)
    /\ cache' = IF AfterResolve(name) = "main" THEN NotConnected ELSE cache

(***************************************************************************)
(* get_or_create_bucket, lines 75-85 and 123-125: the probe.               *)
(***************************************************************************)
\* line 82: return bucket_name
ProbedBucketMut(name) == NewBucketName
ProbedBucket(name) == name

HeadBucket ==
    /\ pc = "head_bucket"
    /\ \E name \in PreferredNames, outcome \in { "ok" } \cup ProbeErrors :
        /\ bucket_name' = name
        /\ probe' = outcome
        /\ calls' = Append(calls, Call("head_bucket", name, None, outcome))
        /\ IF outcome = "ok"
           THEN /\ Resolve(ProbedBucket(name))
                /\ errors' = errors
           ELSE IF IsForbidden(ErrStr(outcome, name))
           THEN /\ pc' = "list_buckets"
                /\ errors' = Append(errors, Msg("no access to bucket", name))
                /\ UNCHANGED << resolved, cache >>
           ELSE /\ Resolve(None)
                /\ errors' = Append(errors, Msg("bucket check error", name))
    /\ UNCHANGED << widget_vars, listed, available_buckets, aws_connected,
                    job_vars >>

(***************************************************************************)
(* get_or_create_bucket, lines 88-100 and 120-122: the listing.            *)
(***************************************************************************)
\* line 98: selected_bucket = available_buckets[0]
SelectBucketMut(buckets) == buckets[Len(buckets)]
SelectBucket(buckets) == buckets[1]

ListBuckets ==
    /\ pc = "list_buckets"
    /\ \/ \E buckets \in DistinctSeqs(BucketPool) :
            /\ listed' = "ok"
            /\ available_buckets' = buckets
            /\ calls' = Append(calls, Call("list_buckets", None, None, "ok"))
            /\ errors' = errors
            /\ IF buckets # << >>
               THEN Resolve(SelectBucket(buckets))
               ELSE /\ pc' = "create_bucket"
                    /\ UNCHANGED << resolved, cache >>
       \/ /\ listed' = "error"
          /\ available_buckets' = << >>
          /\ calls' = Append(calls, Call("list_buckets", None, None, "error"))
          /\ errors' = Append(errors, Msg("bucket list error", None))
          /\ Resolve(None)
    /\ UNCHANGED << widget_vars, bucket_name, probe, aws_connected, job_vars >>

(***************************************************************************)
(* get_or_create_bucket, lines 102-119: the creation.  The key of the call *)
(* records the LocationConstraint argument.                                *)
(***************************************************************************)
CreateOutcomes == { "ok", "BucketAlreadyOwnedByYou", "error" }

\* lines 107-113: the arguments of create_bucket
LocationConstraint(r) == IF r = "us-east-1" THEN None ELSE r

\* lines 115-119: the value returned after create_bucket
CreateResult(outcome, name) == IF outcome = "ok" THEN name ELSE None

CreateBucket ==
    /\ pc = "create_bucket"
    /\ \E region \in Regions, outcome \in CreateOutcomes :
        /\ calls' = Append(calls, Call("create_bucket", NewBucketName,
                                       LocationConstraint(region), outcome))
        /\ Resolve(CreateResult(outcome, NewBucketName))
        /\ errors' = IF CreateResult(outcome, NewBucketName) # None
                     THEN errors
                     ELSE Append(errors, Msg("bucket creation error", NewBucketName))
    /\ UNCHANGED << widget_vars, res_vars, aws_connected, job_vars >>

(***************************************************************************)
(* init_aws_clients, lines 168-175: the check of the Lambda function,      *)
(* which connects whatever its outcome.                                    *)
(***************************************************************************)
GetFunction ==
    /\ pc = "get_function"
    /\ \E ok \in BOOLEAN :
        /\ calls' = Append(calls, Call("get_function", None, None,
                                       IF ok THEN "ok" ELSE "error"))
        /\ errors' = IF ok THEN errors
                     ELSE Append(errors, Msg("Lambda function error", None))
    /\ aws_connected' = TRUE
    /\ cache' = Connected(resolved)
    /\ pc' = "main"
    /\ UNCHANGED << widget_vars, res_vars, resolved, job_vars >>

(***************************************************************************)
(* main, lines 291-298 and 393-409: the connection check, then the button  *)
(* with its two validations.  The status column (lines 350-389) only       *)
(* displays.                                                               *)
(***************************************************************************)
Main ==
    /\ pc = "main"
    /\ IF ~aws_connected
       THEN /\ pc' = "stopped"
            /\ errors' = Append(errors, Msg("AWS connection failed", None))
            /\ UNCHANGED << progress, status_text >>
       ELSE IF ~clicked
       THEN /\ pc' = "rendered"
            /\ UNCHANGED << errors, progress, status_text >>
       ELSE IF ~input_template_file
       THEN /\ pc' = "invalid"
            /\ errors' = Append(errors, Msg("upload a template file", None))
            /\ UNCHANGED << progress, status_text >>
       ELSE IF source_files = << >>
       THEN /\ pc' = "invalid"
            /\ errors' = Append(errors, Msg("upload at least one source file", None))
            /\ UNCHANGED << progress, status_text >>
       ELSE \* process_files, lines 416-425
            /\ pc' = "upload_template"
            /\ progress' = 100
            /\ status_text' = "uploading"
            /\ errors' = errors
    /\ UNCHANGED << cache, widget_vars, res_vars, resolved, aws_connected,
                    source_keys, lambda_response, metrics, buttons, zip_entries,
                    idx, calls >>

(***************************************************************************)
(* process_files, lines 427-446: the uploads.  upload_file_to_s3 (lines    *)
(* 181-188) turns every exception into False and reports it.               *)
(***************************************************************************)
UploadTemplate ==
    /\ pc = "upload_template"
    /\ \E ok \in BOOLEAN :
        /\ calls' = Append(calls, Call("upload_fileobj", resolved, TemplateKey,
                                       IF ok THEN "ok" ELSE "error"))
        /\ IF ok
           THEN /\ pc' = "upload_source"
                /\ errors' = errors
           ELSE /\ pc' = "returned"
                /\ errors' = errors \o << Msg("S3 upload error", TemplateKey),
                                          Msg("template upload failed", TemplateKey) >>
    /\ idx' = 0
    /\ source_keys' = << >>
    /\ UNCHANGED << cache, widget_vars, res_vars, resolved, aws_connected,
                    lambda_response, metrics, buttons, zip_entries, progress,
                    status_text >>

\* lines 439-446: where the loop goes after the upload of source i of n
UploadNextMut(ok, i, n) == IF i + 1 < n THEN "upload_source" ELSE "invoke"
UploadNext(ok, i, n) ==
    IF ~ok THEN "returned" ELSE IF i + 1 < n THEN "upload_source" ELSE "invoke"

\* lines 439-440: the keys collected after the upload of key
KeysAfterUpload(keys, key, ok) == IF ok THEN Append(keys, key) ELSE keys

\* lines 442-443: 0.1 + (i + 1) * 0.25 / len(source_files), capped at 1.0
UploadProgress(i, n) ==
    LET value == 100 + ((i + 1) * 250) \div n
    IN  IF value < 1000 THEN value ELSE 1000

UploadSource ==
    /\ pc = "upload_source"
    /\ idx < Len(source_files)
    /\ \E ok \in BOOLEAN :
        LET name == source_files[idx + 1]
            key == SourceKey(idx, name)
            next == UploadNext(ok, idx, Len(source_files))
        IN  /\ calls' = Append(calls, Call("upload_fileobj", resolved, key,
                                           IF ok THEN "ok" ELSE "error"))
            /\ source_keys' = KeysAfterUpload(source_keys, key, ok)
            /\ errors' = IF ok THEN errors
                         ELSE errors \o << Msg("S3 upload error", key),
                                           Msg("source upload failed", name) >>
            /\ pc' = next
            \* lines 449-450 once the loop is over
            /\ progress' = IF next = "invoke" THEN 400
                           ELSE IF ok THEN UploadProgress(idx, Len(source_files))
                           ELSE progress
            /\ status_text' = IF next = "invoke" THEN "invoking" ELSE status_text
    /\ idx' = idx + 1
    /\ UNCHANGED << cache, widget_vars, res_vars, resolved, aws_connected,
                    lambda_response, metrics, buttons, zip_entries >>

(***************************************************************************)
(* The response of lambda_client.invoke as Python sees it.                 *)
(*   tag: transport_error (invoke raises), undecodable (json.loads raises),*)
(*        falsy (null, {}, [], 0, ""), nondict (a list, a text, a number), *)
(*        dict (an object with at least one key)                           *)
(*   statusCode: 0 stands for an object without that key                   *)
(*   body: absent, dict, str_dict (text encoding an object),               *)
(*        str_undecodable, str_nondict (text encoding no object), nondict  *)
(***************************************************************************)
ItemCounts == { 2 }

ResultRecords ==
    { [status |-> s, has_items |-> TRUE, extracted_items |-> c] :
        s \in { "success", "failure" }, c \in ItemCounts }
    \cup { [status |-> s, has_items |-> FALSE, extracted_items |-> 0] :
        s \in { "success", "failure" } }

Resp(tag, code, body, results, files) ==
    [tag |-> tag, statusCode |-> code, body |-> body, results |-> results,
     processed_files |-> files]

Responses ==
    { Resp(t, 0, "absent", << >>, << >>) :
        t \in { "transport_error", "undecodable", "falsy", "nondict" } }
    \cup { Resp("dict", c, "absent", << >>, << >>) : c \in { 0, 500 } }
    \cup { Resp("dict", 200, b, << >>, << >>) :
        b \in { "absent", "str_undecodable", "str_nondict", "nondict" } }
    \cup { Resp("dict", 200, b, rs, Refs(m)) :
        b \in { "dict", "str_dict" },
        rs \in SeqsUpTo(ResultRecords, MaxResults),
        m \in 0..MaxRefs }

\* lines 192-203: invoke_lambda_function returns None on any exception
InvokeFailed(resp) == resp.tag \in { "transport_error", "undecodable" }

\* line 469: if not lambda_result
Falsy(resp) == InvokeFailed(resp) \/ resp.tag = "falsy"

\* line 487: the body is decoded when it is a str; .get needs an object
BodyDecodesMut(resp) == TRUE
BodyDecodes(resp) == resp.body \in { "absent", "dict", "str_dict" }

\* lines 469-488 and 545-548: how process_files takes the response
Outcome(resp) ==
    CASE Falsy(resp) -> "failed"
      [] ~Falsy(resp) /\ resp.tag # "dict" -> "exception"
      [] resp.tag = "dict" /\ resp.statusCode # 200 -> "app_error"
      [] resp.tag = "dict" /\ resp.statusCode = 200 /\ ~BodyDecodes(resp)
            -> "exception"
      [] OTHER -> "ok"

\* line 488: body.get('results', [])
Results(resp) == resp.results

\* line 489: body.get('processed_files', [])
ProcessedFiles(resp) == resp.processed_files

\* line 514: len([r for r in results if r.get('status') == 'success'])
RECURSIVE SuccessCount(_)
SuccessCount(rs) ==
    IF rs = << >> THEN 0
    ELSE (IF Head(rs).status = "success" THEN 1 ELSE 0) + SuccessCount(Tail(rs))

\* line 520: len(results) - success_count
FailureCount(rs) == Len(rs) - SuccessCount(rs)

\* line 522: sum(r.get('extracted_items', 0) for r in results
\*                if 'extracted_items' in r)
RECURSIVE ExtractedTotalMut(_)
ExtractedTotalMut(rs) ==
    IF rs = << >> THEN 0
    ELSE (IF Head(rs).status = "success" /\ Head(rs).has_items
          THEN Head(rs).extracted_items ELSE 0) + ExtractedTotalMut(Tail(rs))
RECURSIVE ExtractedTotal(_)
ExtractedTotal(rs) ==
    IF rs = << >> THEN 0
    ELSE (IF Head(rs).has_items THEN Head(rs).extracted_items ELSE 0)
         + ExtractedTotal(Tail(rs))

\* lines 502-522: the metrics are shown when results is not empty
Metrics(rs) ==
    IF rs = << >> THEN NoMetrics
    ELSE [shown |-> TRUE, success |-> SuccessCount(rs),
          failure |-> FailureCount(rs), items |-> ExtractedTotal(rs)]

\* lines 455-460: the payload handed to the Lambda function
Payload ==
    [bucket |-> resolved, input_template_key |-> TemplateKey,
     source_files |-> source_keys,
     output_prefix |-> "outputs/" \o process_id \o "_"]

\* lines 537-541: the end of a successful run
Finish ==
    /\ pc' = "done"
    /\ progress' = 1000
    /\ status_text' = "complete"

(***************************************************************************)
(* process_files, lines 466-531: the invocation and what follows it up to  *)
(* the first download.                                                     *)
(***************************************************************************)
Invoke ==
    /\ pc = "invoke"
    /\ \E resp \in Responses :
        /\ lambda_response' = resp
        /\ calls' = Append(calls, Call("invoke", resolved, TemplateKey,
                                       IF InvokeFailed(resp) THEN "error" ELSE "ok"))
        /\ CASE Outcome(resp) = "failed" ->
                  /\ pc' = "returned"
                  /\ errors' = (IF InvokeFailed(resp)
                                THEN Append(errors, Msg("Lambda invoke error", None))
                                ELSE errors)
                               \o << Msg("Lambda execution failed", None) >>
                  /\ UNCHANGED << metrics, progress, status_text >>
             [] Outcome(resp) = "exception" ->
                  /\ pc' = "returned"
                  /\ progress' = 600
                  /\ status_text' = "processing"
                  /\ errors' = Append(errors, Msg("error while processing", None))
                  /\ UNCHANGED metrics
             [] Outcome(resp) = "app_error" ->
                  /\ pc' = "returned"
                  /\ progress' = 600
                  /\ status_text' = "processing"
                  /\ errors' = Append(errors, Msg("Lambda execution error", None))
                  /\ UNCHANGED metrics
             [] OTHER ->
                  /\ metrics' = Metrics(Results(resp))
                  /\ errors' = errors
                  /\ IF ProcessedFiles(resp) # << >>
                     THEN /\ pc' = "download"
                          /\ progress' = 900
                          /\ status_text' = "preparing download"
                     ELSE Finish
    /\ idx' = 0
    /\ UNCHANGED << cache, widget_vars, res_vars, resolved, aws_connected,
                    source_keys, buttons, zip_entries >>

(***************************************************************************)
(* download_files, lines 550-600.  download_file_from_s3 (lines 205-212)   *)
(* returns the bytes of the object, or None after reporting the error;     *)
(* the object may hold no bytes at all.                                    *)
(***************************************************************************)
DownloadOutcomes == { "error", "empty", "data" }

\* lines 559, 575, 592: if file_data
FileData(outcome) == outcome = "data"

\* lines 554, 568, 588: the branch download_files takes
DownloadMode(n, zip) ==
    IF n = 1 THEN "single" ELSE IF zip THEN "zip" ELSE "individual"

\* line 584: f"excel_results_{datetime.now().strftime('%Y%m%d_%H%M%S')}.zip"
ZipName == "excel_results_20250714_101530.zip"

FileButton(key, widget_key) ==
    [kind |-> "file", file_name |-> PathName(key), entries |-> << >>,
     key |-> widget_key]

ZipButton(entries) ==
    [kind |-> "zip", file_name |-> ZipName, entries |-> entries, key |-> ""]

\* lines 534-535: cleanup_files runs unless keep_files
AfterDownload(keep) == IF keep THEN "done" ELSE "cleanup"

Download ==
    /\ pc = "download"
    /\ idx < Len(ProcessedFiles(lambda_response))
    /\ \E outcome \in DownloadOutcomes :
        LET files == ProcessedFiles(lambda_response)
            key == files[idx + 1]
            mode == DownloadMode(Len(files), zip_results)
            last == idx + 1 = Len(files)
            entries == IF mode = "zip" /\ FileData(outcome)
                       THEN Append(zip_entries, PathName(key))
                       ELSE zip_entries
            shown == IF mode = "single" /\ FileData(outcome)
                     THEN Append(buttons, FileButton(key, ""))
                     ELSE IF mode = "individual" /\ FileData(outcome)
                     THEN Append(buttons,
                                 FileButton(key, "download_" \o ToString(idx)))
                     ELSE buttons
        IN  /\ calls' = Append(calls, Call("get_object", resolved, key, outcome))
            /\ errors' = IF outcome = "error"
                         THEN Append(errors, Msg("S3 download error", key))
                         ELSE errors
            /\ zip_entries' = entries
            /\ buttons' = IF last /\ mode = "zip"
                          THEN Append(shown, ZipButton(entries))
                          ELSE shown
            /\ IF ~last
               THEN /\ pc' = "download"
                    /\ idx' = idx + 1
                    /\ UNCHANGED << progress, status_text >>
               ELSE IF AfterDownload(keep_files) = "cleanup"
               THEN /\ pc' = "cleanup"
                    /\ idx' = 0
                    /\ UNCHANGED << progress, status_text >>
               ELSE /\ Finish
                    /\ idx' = 0
    /\ UNCHANGED << cache, widget_vars, res_vars, resolved, aws_connected,
                    source_keys, lambda_response, metrics >>

(***************************************************************************)
(* cleanup_files, lines 602-613, then process_files, lines 537-541.        *)
(***************************************************************************)
\* line 606: keys_to_delete = [template_key] + source_keys
KeysToDelete(template_key, keys) == << template_key >> \o keys

\* lines 608-613, then 537: where the run goes after the delete of key i of n;
\* the except of line 612 ends the loop and cleanup_files returns normally
AfterDeleteMut(ok, i, n) ==
    IF ~ok THEN "returned" ELSE IF i + 1 = n THEN "done" ELSE "cleanup"
AfterDelete(ok, i, n) ==
    IF ~ok THEN "done" ELSE IF i + 1 = n THEN "done" ELSE "cleanup"

Cleanup ==
    /\ pc = "cleanup"
    /\ idx < Len(KeysToDelete(TemplateKey, source_keys))
    /\ \E ok \in BOOLEAN :
        LET keys == KeysToDelete(TemplateKey, source_keys)
            key == keys[idx + 1]
            next == AfterDelete(ok, idx, Len(keys))
        IN  /\ calls' = Append(calls, Call("delete_object", resolved, key,
                                           IF ok THEN "ok" ELSE "error"))
            /\ errors' = IF ok THEN errors
                         ELSE Append(errors, Msg("cleanup error", key))
            /\ idx' = IF ok THEN idx + 1 ELSE idx
            /\ IF next = "done"
               THEN Finish
               ELSE /\ pc' = next
                    /\ UNCHANGED << progress, status_text >>
    /\ UNCHANGED << cache, widget_vars, res_vars, resolved, aws_connected,
                    source_keys, lambda_response, metrics, buttons, zip_entries >>

Next ==
    \/ Rerun
    \/ Widgets
    \/ InitAwsClients
    \/ GetCallerIdentity
    \/ HeadBucket
    \/ ListBuckets
    \/ CreateBucket
    \/ GetFunction
    \/ Main
    \/ UploadTemplate
    \/ UploadSource
    \/ Invoke
    \/ Download
    \/ Cleanup

Spec == Init /\ [][Next]_vars


(***************************************************************************)
(* Observations on the calls of the current run.                           *)
(***************************************************************************)
CallsOf(ops) == SelectSeq(calls, LAMBDA c : c.op \in ops)

Issued(ops) == \E i \in 1..Len(calls) : calls[i].op \in ops

Uploads == CallsOf({ "upload_fileobj" })

Gets == CallsOf({ "get_object" })

\* the keys process_files builds for the n selected sources
ExpectedKeys(n) == [i \in 1..n |-> SourceKey(i - 1, source_files[i])]

(***************************************************************************)
(* C1.  When the probe of the configured bucket name succeeds, the         *)
(* resolution returns exactly that name (it is what init_aws_clients       *)
(* caches and main uses) and calls neither list_buckets nor create_bucket. *)
(***************************************************************************)
C1_ProbeSuccessReturnsPreferred ==
    probe = "ok" =>
        /\ bucket_name \in PreferredNames
        /\ resolved = bucket_name
        /\ cache.filled => (cache.connected /\ cache.result = bucket_name)
        /\ ~Issued({ "list_buckets", "create_bucket" })

C1_Witness ==
    /\ probe = "ok"
    /\ pc = "main"
    /\ aws_connected
    /\ resolved = "excel-aggregator-20250714-140312"
    /\ cache = Connected("excel-aggregator-20250714-140312")

(***************************************************************************)
(* C2.  When the probe fails with access denied and list_buckets returns   *)
(* at least one bucket, the resolution returns the first bucket of the     *)
(* returned list, a function of that list alone, and never calls           *)
(* create_bucket.                                                          *)
(***************************************************************************)
C2_DeniedPicksFirstListed ==
    (probe = "AccessDenied" /\ listed = "ok" /\ available_buckets # << >>) =>
        /\ resolved = available_buckets[1]
        /\ cache.filled => (cache.connected /\ cache.result = available_buckets[1])
        /\ ~Issued({ "create_bucket" })

C2_Witness ==
    /\ probe = "AccessDenied"
    /\ available_buckets = << "company-reports", "company-archive" >>
    /\ resolved = "company-reports"
    /\ pc = "main"
    /\ aws_connected

(***************************************************************************)
(* C3.  Whenever the probe fails with an error other than access denied,   *)
(* or list_buckets fails, the resolution yields no bucket, the             *)
(* initialisation is not connected, and the run issues no put-object,      *)
(* invoke, get-object or delete-object.                                    *)
(***************************************************************************)
C3_FatalResolutionStops ==
    (probe \in { "NotFound", "Network" } \/ listed = "error") =>
        /\ resolved = None
        /\ ~aws_connected
        /\ cache.filled => ~cache.connected
        /\ ~Issued({ "upload_fileobj", "invoke", "get_object", "delete_object" })

(***************************************************************************)
(* C4.  When create_bucket for the synthesized name fails because the      *)
(* bucket already exists, the resolution returns the synthesized name.     *)
(***************************************************************************)
C4_AlreadyExistsIsSuccess ==
    \A i \in 1..Len(calls) :
        (calls[i].op = "create_bucket"
            /\ calls[i].outcome = "BucketAlreadyOwnedByYou") =>
                resolved = NewBucketName

(***************************************************************************)
(* C5.  Fail-fast upload.  Once the Lambda function is about to be or has  *)
(* been invoked, the source keys are the keys of all N sources in          *)
(* submission order.  A failed upload is the last upload of the run and    *)
(* no invocation follows it; when it is the upload of source index k,      *)
(* exactly the keys of the sources 0..k-1 have been collected; when it is  *)
(* the upload of the template, no source upload was attempted.             *)
(***************************************************************************)
C5_FailFastUpload ==
    LET n == Len(source_files)
        ups == Uploads
    IN  /\ (pc = "invoke" \/ Issued({ "invoke" })) =>
              /\ source_keys = ExpectedKeys(n)
              /\ Len(ups) = n + 1
        /\ \A j \in 1..Len(ups) :
              /\ ups[j].key = (IF j = 1 THEN TemplateKey ELSE ExpectedKeys(n)[j - 1])
              /\ ups[j].outcome = "error" =>
                    /\ j = Len(ups)
                    /\ pc = "returned"
                    /\ ~Issued({ "invoke" })
                    /\ source_keys = SubSeq(ExpectedKeys(n), 1, j - 2)
                    /\ j >= 2 => Len(source_keys) = j - 2

C5_Witness ==
    /\ pc = "returned"
    /\ Len(source_files) = 2
    /\ Len(Uploads) = 3
    /\ Uploads[3].outcome = "error"
    /\ source_keys = << SourceKey(0, FileName(1)) >>

(***************************************************************************)
(* C6.  A failed transport call, or a response that does not decode to an  *)
(* object with an object as its body, is reported as an error and is never *)
(* taken as a result list: no metric is computed, nothing is downloaded or *)
(* offered, nothing is deleted, and the run does not complete.             *)
(***************************************************************************)
Malformed(resp) ==
    \/ resp.tag \in { "transport_error", "undecodable", "falsy", "nondict" }
    \/ /\ resp.tag = "dict"
       /\ resp.statusCode = 200
       /\ resp.body \in { "str_undecodable", "str_nondict", "nondict" }

WellFormed200(resp) ==
    /\ resp.tag = "dict"
    /\ resp.statusCode = 200
    /\ resp.body \in { "dict", "str_dict" }

C7_RoundTripBound ==
    WellFormed200(lambda_response) =>
        /\ Len(Results(lambda_response)) <= Len(Payload.source_files)
        /\ metrics.shown =>
              metrics.success + metrics.failure = Len(Results(lambda_response))

(***************************************************************************)
(* C8.  The extracted-items metric.  As claimed: the sum of                *)
(* extracted_items over the records whose status is success only.  As      *)
(* amended: the sum over all records that carry the field, whatever their  *)
(* status.  In both, a record without the field counts zero and does not   *)
(* make the interpretation fail.                                           *)
(***************************************************************************)
RECURSIVE SumOver(_, _)
SumOver(rs, S) ==
    IF S = {} THEN 0
    ELSE LET i == CHOOSE x \in S : TRUE
         IN  rs[i].extracted_items + SumOver(rs, S \ { i })

WithItems(rs) == { i \in 1..Len(rs) : rs[i].has_items }

Successful(rs) == { i \in 1..Len(rs) : rs[i].status = "success" }

Interpreted ==
    /\ WellFormed200(lambda_response)
    /\ Results(lambda_response) # << >>

C8_SuccessOnlyTotal ==
    Interpreted =>
        LET rs == Results(lambda_response)
        IN  /\ metrics.shown
            /\ metrics.items = SumOver(rs, WithItems(rs) \cap Successful(rs))
            /\ pc \in { "download", "cleanup", "done" }

C8_TotalOverAllRecords ==
    Interpreted =>
        LET rs == Results(lambda_response)
        IN  /\ metrics.shown
            /\ metrics.items = SumOver(rs, WithItems(rs))
            /\ pc \in { "download", "cleanup", "done" }

C8_Witness ==
    /\ Interpreted
    /\ pc = "done"
    /\ LET rs == Results(lambda_response)
       IN  /\ Len(rs) = 2
           /\ rs[1].status = "success" /\ ~rs[1].has_items
           /\ rs[2].status = "failure" /\ rs[2].has_items
    /\ metrics.items = 2

(***************************************************************************)
(* C9.  Delivery by cardinality.  With no processed key nothing is fetched *)
(* or offered; with exactly one key the object is offered directly under   *)
(* the base name of its key, whatever zip_results; with more than one key  *)
(* and zip_results exactly one archive is offered; with more than one key  *)
(* and no zip_results each retrievable object is offered on its own.       *)
(***************************************************************************)
Delivered == pc \in { "cleanup", "done" }

\* the processed keys whose get_object did not fail, in order
Retrievable ==
    LET files == ProcessedFiles(lambda_response)
        got == { j \in 1..Len(files) :
                    j <= Len(Gets) /\ Gets[j].outcome # "error" }
        F[j \in 0..Len(files)] ==
            IF j = 0 THEN << >>
            ELSE IF j \in got THEN Append(F[j - 1], files[j]) ELSE F[j - 1]
    IN  F[Len(files)]

OfferedNames == [i \in 1..Len(buttons) |-> buttons[i].file_name]

BaseNames(keys) == [i \in 1..Len(keys) |-> PathName(keys[i])]

C9_DeliveryByCardinality ==
    (Delivered /\ WellFormed200(lambda_response)) =>
        LET n == Len(ProcessedFiles(lambda_response))
        IN  /\ n = 0 => (Gets = << >> /\ buttons = << >>)
            /\ n = 1 =>
                  /\ \A i \in 1..Len(buttons) : buttons[i].kind = "file"
                  /\ OfferedNames = BaseNames(Retrievable)
            /\ (n > 1 /\ zip_results) =>
                  /\ Len(buttons) = 1
                  /\ buttons[1].kind = "zip"
            /\ (n > 1 /\ ~zip_results) =>
                  /\ \A i \in 1..Len(buttons) : buttons[i].kind = "file"
                  /\ OfferedNames = BaseNames(Retrievable)

(***************************************************************************)
(* C10.  With more than one processed key, a key whose download fails is   *)
(* skipped and reported, a download is attempted for every key, and what   *)
(* is delivered (the entries of the archive, or the separate files) is     *)
(* exactly the retrievable keys.                                           *)
(***************************************************************************)
C10_FailedDownloadIsSkipped ==
    (Delivered /\ WellFormed200(lambda_response)
        /\ Len(ProcessedFiles(lambda_response)) > 1) =>
        LET files == ProcessedFiles(lambda_response)
        IN  /\ Len(Gets) = Len(files)
            /\ \A j \in 1..Len(files) :
                  /\ Gets[j].key = files[j]
                  /\ Gets[j].outcome = "error" =>
                        \E e \in 1..Len(errors) :
                            errors[e] = Msg("S3 download error", files[j])
            /\ IF zip_results
               THEN buttons = << ZipButton(BaseNames(Retrievable)) >>
               ELSE OfferedNames = BaseNames(Retrievable)

(***************************************************************************)
(* C11.  Retention.  With keep_files no delete_object is ever issued.      *)
(* Without it, a completed job has issued a delete_object for the template *)
(* key and for every uploaded source key.  No delete_object is ever issued *)
(* for a processed key.                                                    *)
(***************************************************************************)
Deletes == CallsOf({ "delete_object" })

Range(s) == { s[i] : i \in 1..Len(s) }

DeletedKeys == { Deletes[i].key : i \in 1..Len(Deletes) }

C11_Retention ==
    /\ keep_files => Deletes = << >>
    /\ (pc = "done" /\ ~keep_files) =>
          ({ TemplateKey } \cup Range(source_keys)) \subseteq DeletedKeys
    /\ DeletedKeys \cap Range(ProcessedFiles(lambda_response)) = {}

(***************************************************************************)
(* C12.  A failing delete_object is not fatal: it is reported as a warning *)
(* only, nothing is reported after it, and the job ends completed, with    *)
(* progress 1.0 and the completion text.                                   *)
(***************************************************************************)
C12_CleanupFailureIsNotFatal ==
    \A i \in 1..Len(Deletes) :
        Deletes[i].outcome = "error" =>
            /\ i = Len(Deletes)
            /\ pc = "done"
            /\ progress = 1000
            /\ status_text = "complete"
            /\ errors # << >>
            /\ errors[Len(errors)] = Msg("cleanup error", Deletes[i].key)
            /\ Severity(errors[Len(errors)].text) = "warning"

C12_Witness ==
    /\ Len(Deletes) = 2
    /\ Deletes[1].outcome = "ok"
    /\ Deletes[2].outcome = "error"
    /\ Len(source_keys) = 2
    /\ pc = "done"
    /\ progress = 1000

====
